---- MODULE Spec2Model ----
(***************************************************************************)
(* X-DailyMovers, src/CryptoScript.js: the nightly scan getUnifiedPicks    *)
(* (global provider fetches, per-asset scoring loop, sort, slice, write of *)
(* master_picks.json) and the report reportPerformance (read of the file,  *)
(* per-pick ticker lookup, percent change).                                *)
(*                                                                         *)
(* The file holds two copies of the program; the model follows the first   *)
(* (lines 1-298).  The second (lines 299-517) has the same scoring, sort,  *)
(* slice, write and per-pick try; it differs in pair discovery and posts   *)
(* nothing; SpecSecond is its scan.  In Spec one run of getUnifiedPicks is *)
(* in progress at a time and a run of reportPerformance interleaves with   *)
(* it at the awaits; in SpecOverlap two runs of getUnifiedPicks are in     *)
(* flight and take turns at their awaits.                                  *)
(*                                                                         *)
(* Prices are integers in units of 1/1000 of the quote currency.  Candle   *)
(* series are represented by their lengths and by the outcome of each      *)
(* numeric comparison the evaluators make on them; the indicator library   *)
(* (technicalindicators) is represented by the length of its output.       *)
(***************************************************************************)
EXTENDS Integers, Sequences, FiniteSets, TLC

\* ------------------------------------------------------------------ bounds
MaxAssets == 1      \* tradable non-stable coins the universe provider lists
MaxScans == 2       \* scan runs started in one behaviour
MaxReports == 2     \* report runs started in one behaviour
MaxCands == 6       \* candidates handed to the ranking step in SpecRank
MaxPicks == 3       \* picks in the file at the start of SpecReport
MaxHolds == 2       \* comparisons holding at once in a SpecScore context
MaxRunAssets == 2   \* symbols each of the two overlapping runs of SpecOverlap scans

\* ------------------------------------------------------- program constants
TopK == 5                 \* slice(0, 5)
BollingerPeriod == 20     \* BollingerBands.calculate({ period: 20, ... })
GeckoPages == 4           \* for (let page = 1; page <= 4; page++)
FearThreshold == 25       \* fearIndex < 25
GalaxyThreshold == 70     \* galaxy_score > 70
UnitBiasLimit == 10       \* currentPrice < 0.01, in units of 1/1000
TargetPercent == 10       \* change >= 10
GeckoPagesSecond == 2     \* second copy: for (let page = 1; page <= 2; page++)
FallbackLimit == 100      \* second copy: .slice(0, 100)

\* ------------------------------------------------ the world outside the bot
CoinNames == <<"btc", "eth", "xrp", "sol", "ada", "doge", "dot", "ltc">>

Upper(s) ==
    CASE s = "btc" -> "BTC" [] s = "eth" -> "ETH" [] s = "xrp" -> "XRP"
      [] s = "sol" -> "SOL" [] s = "ada" -> "ADA" [] s = "doge" -> "DOGE"
      [] s = "dot" -> "DOT" [] s = "ltc" -> "LTC" [] s = "usdt" -> "USDT"
      [] s = "usde" -> "USDE" [] s = "usdc" -> "USDC" [] OTHER -> s

\* what the stablecoin provider returns (peggedAssets[].symbol, lower-cased)
LlamaSymbols == {"usdt", "usdc", "usde"}

\* page p of /coins/markets: coin symbols in market-cap order
GeckoPage(p) ==
    IF p = 1 THEN <<CoinNames[1], "usdt">> \o SubSeq(CoinNames, 2, MaxAssets)
    ELSE IF p = 2 THEN <<"usde">>
    ELSE <<>>

\* the pairs on the venue: base |-> pair, for the bases it lists
ListedPair(base) ==
    CASE base = "BTC" -> "BTC/USDT"
      [] base = "ETH" -> "ETH/USD"
      [] base = "XRP" -> "XRP/USDT"
      [] base = "SOL" -> "SOL/USD"
      [] base = "ADA" -> "ADA/USDT"
      [] base = "DOGE" -> "DOGE/USD"
      [] base = "DOT" -> "DOT/USDT"
      [] base = "LTC" -> "LTC/USD"
      [] base = "USDC" -> "USDC/USDT"
      [] OTHER -> "none"

CoinOf(pair) ==
    CASE pair = "BTC/USDT" -> "BTC"
      [] pair = "ETH/USD" -> "ETH"
      [] pair = "XRP/USDT" -> "XRP"
      [] pair = "SOL/USD" -> "SOL"
      [] pair = "ADA/USDT" -> "ADA"
      [] pair = "DOGE/USD" -> "DOGE"
      [] pair = "DOT/USDT" -> "DOT"
      [] pair = "LTC/USD" -> "LTC"
      [] pair = "USDC/USDT" -> "USDC"
      [] OTHER -> pair

\* Object.keys(tickers): the pairs of the venue, in the order it lists them
VenueKeys ==
    <<"BTC/USDT", "USDC/USDT", "ETH/USD", "XRP/USDT", "SOL/USD", "ADA/USDT",
      "DOGE/USD", "DOT/USDT", "LTC/USD">>

\* s.endsWith('/USDT')
EndsWithUSDT(pair) ==
    pair \in {"BTC/USDT", "USDC/USDT", "XRP/USDT", "ADA/USDT", "DOT/USDT",
              "ETH/USDT", "SOL/USDT", "DOGE/USDT", "LTC/USDT", "USDT/USDT",
              "USDE/USDT"}

\* lunarcrush coin list: symbol |-> galaxy_score
LunarData == [c \in {"BTC", "ETH"} |-> IF c = "BTC" THEN 80 ELSE 60]
NoSocial == [c \in {} |-> 0]

\* whale-alert transactions: symbol (lower case) and to.owner_type
WhaleTransactions ==
    {[symbol |-> "eth", owner_type |-> "exchange"],
     [symbol |-> "btc", owner_type |-> "unknown"]}

FearValues == {18, 50}
LastPrices == {5, 100}
NowPrices == {90, 100, 110, 112}

\* ------------------------------------------------------------ asset context
\* the outcome of each numeric comparison of the evaluators, were all of its
\* operands present
Comparisons ==
    {"midBelowFirst", "lastAboveMid", "higherLows", "psarFlip", "emaCross",
     "bbNarrow", "gap", "belowMean", "vwapBounce"}

FundingOutcomes == {"throws", "negative", "positive"}

Context(ok, h, d, holds, last, funding) ==
    [ohlcv |-> ok, hLen |-> h, dLen |-> d, holds |-> holds, last |-> last,
     funding |-> funding]

\* arr[i] is a bar (not undefined) in an array of len elements
HasIndex(len, i) == i >= 0 /\ i < len

\* EMA.calculate({period, values}).length
EmaLength(period, len) == IF len >= period THEN len - period + 1 ELSE 0

\* BollingerBands.calculate({period: 20, ...}).length
BollingerLength(len) ==
    IF len >= BollingerPeriod THEN len - BollingerPeriod + 1 ELSE 0

\* dailyOhlcv.slice(10, 20).length
MidSliceLength(d) == IF d <= 10 THEN 0 ELSE IF d >= 20 THEN 10 ELSE d - 10

\* the first operand of the Rounding Bottom test, mid < dailyOhlcv[0][4]:
\* Math.min() of an empty slice is Infinity and the test is false
MidBelowFirst(ctx) ==
    MidSliceLength(ctx.dLen) > 0 /\ "midBelowFirst" \in ctx.holds

\* a TypeError inside the per-asset try block: a property read of undefined
\* (dailyOhlcv[0][4], dailyOhlcv[29][4], lastBB.upper, dailyOhlcv[-1][1]), or
\* a rejected fetchOHLCV
ThrowsFunding(ctx) ==
    \/ ~ctx.ohlcv
    \/ ~HasIndex(ctx.dLen, 0)
    \/ MidBelowFirst(ctx) /\ ~HasIndex(ctx.dLen, 29)
    \/ BollingerLength(ctx.hLen) = 0
    \/ ~HasIndex(ctx.dLen, ctx.dLen - 1)
    \/ ctx.funding = "throws"

Throws(ctx) ==
    \/ ~ctx.ohlcv
    \/ ~HasIndex(ctx.dLen, 0)
    \/ MidBelowFirst(ctx) /\ ~HasIndex(ctx.dLen, 29)
    \/ BollingerLength(ctx.hLen) = 0
    \/ ~HasIndex(ctx.dLen, ctx.dLen - 1)

\* { score += w; triggers.push(label); } under its if
FireOffByOne(acc, cond, w, label) ==
    IF cond
    THEN [score |-> acc.score + w + 1, triggers |-> Append(acc.triggers, label)]
    ELSE acc

Fire(acc, cond, w, label) ==
    IF cond
    THEN [score |-> acc.score + w, triggers |-> Append(acc.triggers, label)]
    ELSE acc

SocialLabel(g) == "Social: Galaxy Score " \o ToString(g)

\* the conditions of the thirteen ifs, in the order of the code; a comparison
\* with an undefined operand (an index past the end of the array) is false
RoundingBottomFires(ctx) ==
    MidBelowFirst(ctx) /\ HasIndex(ctx.dLen, 29) /\ "lastAboveMid" \in ctx.holds
HigherLowsFires(ctx) ==
    HasIndex(ctx.hLen, 99) /\ HasIndex(ctx.hLen, 98) /\ HasIndex(ctx.hLen, 97)
    /\ "higherLows" \in ctx.holds
PsarFlipFires(ctx) ==
    HasIndex(ctx.hLen, 99) /\ HasIndex(ctx.hLen, 98) /\ "psarFlip" \in ctx.holds
EmaCrossFires(ctx) ==
    EmaLength(10, ctx.hLen) > 0 /\ EmaLength(20, ctx.hLen) > 0
    /\ "emaCross" \in ctx.holds
SqueezeFires(ctx) == BollingerLength(ctx.hLen) > 0 /\ "bbNarrow" \in ctx.holds
GapperFires(ctx) ==
    HasIndex(ctx.hLen, 99) /\ HasIndex(ctx.dLen, ctx.dLen - 1) /\ "gap" \in ctx.holds
MeanReversionFires(ctx) == HasIndex(ctx.hLen, 99) /\ "belowMean" \in ctx.holds
VwapBounceFires(ctx) == HasIndex(ctx.hLen, 99) /\ "vwapBounce" \in ctx.holds
UnitBiasFires(ctx) == ctx.last < UnitBiasLimit
SocialFires(coin, social) ==
    coin \in DOMAIN social /\ social[coin] > GalaxyThreshold
WhaleFires(coin, whales) ==
    \E t \in whales : Upper(t.symbol) = coin /\ t.owner_type = "exchange"
FundingFires(ctx) == ctx.funding = "negative"
FearFires(fear) == fear < FearThreshold

\* the body of the per-asset try block, lines 143-212: score and triggers
ScoreOf(symbol, ctx, fear, social, whales) ==
    LET coin == CoinOf(symbol)
        a0 == [score |-> 0, triggers |-> <<>>]
        a1 == Fire(a0, RoundingBottomFires(ctx), 5, "Rounding Bottom")
        a2 == Fire(a1, HigherLowsFires(ctx), 4, "Higher Lows (Triangle)")
        a3 == Fire(a2, PsarFlipFires(ctx), 6, "PSAR Flip")
        a4 == Fire(a3, EmaCrossFires(ctx), 3, "EMA Cross")
        a5 == Fire(a4, SqueezeFires(ctx), 7, "Volatility Squeeze")
        a6 == Fire(a5, GapperFires(ctx), 4, "Gapper Continuation")
        a7 == Fire(a6, MeanReversionFires(ctx), 8, "Mean Reversion (Oversold)")
        a8 == Fire(a7, VwapBounceFires(ctx), 4, "VWAP Bounce")
        a9 == Fire(a8, UnitBiasFires(ctx), 2, "Unit Bias")
        a10 == Fire(a9, SocialFires(coin, social), 10,
                    IF coin \in DOMAIN social THEN SocialLabel(social[coin])
                    ELSE "Social")
        a11 == Fire(a10, WhaleFires(coin, whales), 6, "Whale Activity Detected")
        a12 == Fire(a11, FundingFires(ctx), 8, "Short Squeeze potential")
        a13 == Fire(a12, FearFires(fear), 5, "Market Extreme Fear")
    IN  a13

\* finalCandidates.push({ symbol, score, triggers, priceAt5am: currentPrice })
Candidate(symbol, ctx, fear, social, whales) ==
    LET r == ScoreOf(symbol, ctx, fear, social, whales)
    IN  [symbol |-> symbol, score |-> r.score, triggers |-> r.triggers,
         priceAt5am |-> ctx.last]

\* one iteration of the loop over symbols: the candidates after it
PushOrSkip(cands, symbol, ctx, fear, social, whales) ==
    IF Throws(ctx) THEN cands
    ELSE Append(cands, Candidate(symbol, ctx, fear, social, whales))

\* ----------------------------------------------------------------- ranking
\* Array.prototype.sort with the comparator (a, b) => b.score - a.score.  The
\* sort is stable (ECMAScript 2019; the file's optional chaining needs a Node
\* that has it): x goes after every element it does not precede.
RECURSIVE InsertBeforeTies(_, _)
InsertBeforeTies(x, sorted) ==
    IF sorted = <<>> THEN <<x>>
    ELSE IF Head(sorted).score > x.score
         THEN <<Head(sorted)>> \o InsertBeforeTies(x, Tail(sorted))
         ELSE <<x>> \o sorted

RECURSIVE InsertByScore(_, _)
InsertByScore(x, sorted) ==
    IF sorted = <<>> THEN <<x>>
    ELSE IF Head(sorted).score >= x.score
         THEN <<Head(sorted)>> \o InsertByScore(x, Tail(sorted))
         ELSE <<x>> \o sorted

RECURSIVE SortByScore(_)
SortByScore(cands) ==
    IF cands = <<>> THEN <<>>
    ELSE InsertByScore(cands[Len(cands)],
                       SortByScore(SubSeq(cands, 1, Len(cands) - 1)))

\* .slice(0, 5)
SliceAll(sorted) == sorted

SliceTop(sorted) ==
    IF Len(sorted) <= TopK THEN sorted ELSE SubSeq(sorted, 1, TopK)

\* const top5 = finalCandidates.sort(...).slice(0, 5)
Top5(cands) == SliceTop(SortByScore(cands))

\* --------------------------------------------------------------- the file
\* JSON.stringify(top5): the array of objects, each with its four members in
\* insertion order; the model keeps the member values as a tuple
Stringify(list) ==
    [i \in 1..Len(list) |->
        <<list[i].symbol, list[i].score, list[i].triggers, list[i].priceAt5am>>]

\* JSON.parse(fs.readFileSync(STORAGE_FILE))
Parse(text) ==
    [i \in 1..Len(text) |->
        [symbol |-> text[i][1], score |-> text[i][2], triggers |-> text[i][3],
         priceAt5am |-> text[i][4]]]

\* the file: whether it exists (fs.existsSync) and its text
Absent == [exists |-> FALSE, text |-> <<>>]

\* fs.writeFileSync(STORAGE_FILE, data): the file holds data and nothing else
WriteFile(old, list) == [exists |-> TRUE, text |-> Stringify(list)]

\* ------------------------------------------------------------------ report
\* n / d rounded to the nearest integer, halves away from zero (d > 0)
RoundDiv(n, d) ==
    IF n >= 0 THEN (2 * n + d) \div (2 * d) ELSE -((2 * (-n) + d) \div (2 * d))

\* change.toFixed(2), in hundredths of a percent, of
\* change = ((now.last - pick.priceAt5am) / pick.priceAt5am) * 100
ChangeFixed2(baseline, now) == RoundDiv((now - baseline) * 10000, baseline)

\* change >= 10 ? '10% TARGET MET' : ''
TargetMetStrict(baseline, now) == (now - baseline) * 100 > TargetPercent * baseline

TargetMet(baseline, now) == (now - baseline) * 100 >= TargetPercent * baseline

\* the line one pick yields: the change line of the try, or the catch's
\* "Error tracking" line when fetchTicker rejects
Row(pick, ticker) ==
    IF ~ticker.ok
    THEN [symbol |-> pick.symbol, outcome |-> "error", baseline |-> pick.priceAt5am,
          now |-> 0, fixed2 |-> 0, targetMet |-> FALSE]
    ELSE [symbol |-> pick.symbol, outcome |-> "change", baseline |-> pick.priceAt5am,
          now |-> ticker.last, fixed2 |-> ChangeFixed2(pick.priceAt5am, ticker.last),
          targetMet |-> TargetMet(pick.priceAt5am, ticker.last)]

\* where the for-of loop over picks goes after one pick: the catch is inside
\* the loop body, so the next pick follows in both cases
NextPickAbort(idx, len, ticker) == IF ~ticker.ok THEN len ELSE idx + 1

NextPick(idx, len, ticker) == idx + 1

\* what binance.fetchTicker(pick.symbol) settles with
TickerLookups ==
    {[ok |-> FALSE, last |-> 0]} \cup {[ok |-> TRUE, last |-> p] : p \in NowPrices}

\* ------------------------------------------------------------------- state
VARIABLES
    store,            \* master_picks.json: Absent, or the text written last
    scanPc,           \* where getUnifiedPicks is: idle, llama, gecko, fng,
                      \* lunar, whale, tickers, loop, post
    blacklist,        \* stablecoinBlacklist
    top500,           \* top500BaseSymbols
    fearIndex,        \* fearIndex
    socialData,       \* socialData
    whaleFlows,       \* whaleFlows
    symbols,          \* symbols
    scanCount,        \* scanCount
    finalCandidates,  \* finalCandidates
    scanned,          \* the asset contexts the loop has fetched, in order
    scanEnd,          \* how the last run ended: none, running, written, or
                      \* the await whose rejection reached the outer catch
    scanSettled,      \* the promise getUnifiedPicks returned: none, pending,
                      \* resolved, rejected
    scansStarted,
    parked,           \* the locals of the other run of getUnifiedPicks in
                      \* flight, which waits at an await while this one runs
    repPc,            \* where reportPerformance is: idle, loop, post
    picks,            \* picks
    repIdx,           \* picks already handled by the for-of loop
    rows,             \* one record per line the loop has logged
    reportsStarted

scanVars ==
    <<scanPc, blacklist, top500, fearIndex, socialData, whaleFlows, symbols,
      scanCount, finalCandidates, scanned, scanEnd, scanSettled, scansStarted,
      parked>>
repVars == <<repPc, picks, repIdx, rows, reportsStarted>>
vars == <<store, scanVars, repVars>>

\* new Set(['usdt', 'usdc', 'dai', 'busd', 'fdusd', 'pyusd', 'usdg', 'rlusd'])
FallbackStablecoins ==
    {"usdt", "usdc", "dai", "busd", "fdusd", "pyusd", "usdg", "rlusd"}

RECURSIVE FilterSeq(_, _)
FilterSeq(seq, keep) ==
    IF seq = <<>> THEN <<>>
    ELSE IF Head(seq) \in keep THEN <<Head(seq)>> \o FilterSeq(Tail(seq), keep)
         ELSE FilterSeq(Tail(seq), keep)

\* .map(coin => coin.symbol.toUpperCase())
UpperAll(seq) == [i \in 1..Len(seq) |-> Upper(seq[i])]

Range(seq) == {seq[i] : i \in 1..Len(seq)}

\* geckoRes.data.filter(not blacklisted).map(symbol.toUpperCase()) of page p
GeckoFiltered(p, black) ==
    UpperAll(FilterSeq(GeckoPage(p), Range(GeckoPage(p)) \ black))

\* top500BaseSymbols after the pages 1..n were pushed
RECURSIVE GeckoPushed(_, _)
GeckoPushed(n, black) ==
    IF n = 0 THEN <<>> ELSE GeckoPushed(n - 1, black) \o GeckoFiltered(n, black)

\* top500BaseSymbols.map(base => options.find(pair => tickers[pair]))
\*                  .filter(s => s != null)
DiscoverPairs(bases) ==
    LET pairs == [i \in 1..Len(bases) |-> ListedPair(bases[i])]
    IN  FilterSeq(pairs, Range(pairs) \ {"none"})

\* ---- the second copy of the program (lines 299-517)
\* geckoRes.data.filter(not blacklisted).map(`${symbol.toUpperCase()}/USDT`)
GeckoFilteredSecond(p, black) ==
    LET bases == GeckoFiltered(p, black)
    IN  [i \in 1..Len(bases) |-> bases[i] \o "/USDT"]

\* top500FromGecko after the pages 1..n were pushed
RECURSIVE GeckoPushedSecond(_, _)
GeckoPushedSecond(n, black) ==
    IF n = 0 THEN <<>>
    ELSE GeckoPushedSecond(n - 1, black) \o GeckoFilteredSecond(n, black)

\* .slice(0, 100)
SliceFallback(seq) ==
    IF Len(seq) <= FallbackLimit THEN seq ELSE SubSeq(seq, 1, FallbackLimit)

\* top500FromGecko.length > 0
\*     ? top500FromGecko.filter(s => tickers[s])
\*     : Object.keys(tickers).filter(s => s.endsWith('/USDT')).slice(0, 100)
DiscoverPairsSecond(gecko) ==
    IF Len(gecko) > 0
    THEN FilterSeq(gecko, Range(gecko) \cap Range(VenueKeys))
    ELSE SliceFallback(FilterSeq(VenueKeys, {k \in Range(VenueKeys) : EndsWithUSDT(k)}))

\* the locals of a run that has not started or has returned
ScanLocalsReset ==
    /\ blacklist' = {}
    /\ top500' = <<>>
    /\ fearIndex' = 0
    /\ socialData' = NoSocial
    /\ whaleFlows' = {}
    /\ symbols' = <<>>
    /\ scanCount' = 0
    /\ finalCandidates' = <<>>
    /\ scanned' = <<>>

\* the locals of one call of getUnifiedPicks
Frame(pc, black, top, fear, social, whales, syms, count, cands, ctxs, end, settled) ==
    [scanPc |-> pc, blacklist |-> black, top500 |-> top, fearIndex |-> fear,
     socialData |-> social, whaleFlows |-> whales, symbols |-> syms,
     scanCount |-> count, finalCandidates |-> cands, scanned |-> ctxs,
     scanEnd |-> end, scanSettled |-> settled]

\* no other call is in flight
IdleFrame ==
    Frame("idle", {}, <<>>, 0, NoSocial, {}, <<>>, 0, <<>>, <<>>, "none", "none")

Init ==
    /\ store = Absent
    /\ scanPc = "idle"
    /\ blacklist = {}
    /\ top500 = <<>>
    /\ fearIndex = 0
    /\ socialData = NoSocial
    /\ whaleFlows = {}
    /\ symbols = <<>>
    /\ scanCount = 0
    /\ finalCandidates = <<>>
    /\ scanned = <<>>
    /\ scanEnd = "none"
    /\ scanSettled = "none"
    /\ scansStarted = 0
    /\ parked = IdleFrame
    /\ repPc = "idle"
    /\ picks = <<>>
    /\ repIdx = 0
    /\ rows = <<>>
    /\ reportsStarted = 0

\* ----------------------------------------------------------- getUnifiedPicks
\* the contexts a scan of Spec can fetch for an asset
Contexts ==
    {Context(TRUE, 100, 30, {"midBelowFirst", "lastAboveMid", "higherLows"},
             100, "throws"),
     Context(TRUE, 10, 30, {"bbNarrow"}, 100, "positive")}

\* what the fear and greed request settles with
FngResponses ==
    {[ok |-> FALSE, value |-> 0]} \cup {[ok |-> TRUE, value |-> v] : v \in FearValues}

\* the outer catch: console.error("Critical error during scan:", err), after
\* which the async function returns and its promise resolves
SettledAfterCatch == "resolved"

Caught(cause) ==
    /\ scanPc' = "idle"
    /\ scanEnd' = cause
    /\ scanSettled' = SettledAfterCatch
    /\ ScanLocalsReset

\* cron.schedule('0 1 * * *', getUnifiedPicks), and the call at load
ScanStart ==
    /\ scanPc = "idle"
    /\ scansStarted < MaxScans
    /\ scansStarted' = scansStarted + 1
    /\ scanPc' = "llama"
    /\ scanEnd' = "running"
    /\ scanSettled' = "pending"
    /\ blacklist' = FallbackStablecoins
    /\ UNCHANGED <<store, repVars, parked, top500, fearIndex, socialData, whaleFlows,
                   symbols, scanCount, finalCandidates, scanned>>

FetchStablecoins ==
    /\ scanPc = "llama"
    /\ \E ok \in BOOLEAN :
          blacklist' = IF ok THEN blacklist \cup LlamaSymbols ELSE blacklist
    /\ scanPc' = "gecko"
    /\ UNCHANGED <<store, repVars, parked, top500, fearIndex, socialData, whaleFlows,
                   symbols, scanCount, finalCandidates, scanned, scanEnd,
                   scanSettled, scansStarted>>

\* n pages answer before a request rejects (n = GeckoPages: none rejects)
FetchGecko ==
    /\ scanPc = "gecko"
    /\ \E n \in 0..GeckoPages : top500' = GeckoPushed(n, blacklist)
    /\ scanPc' = "fng"
    /\ UNCHANGED <<store, repVars, parked, blacklist, fearIndex, socialData, whaleFlows,
                   symbols, scanCount, finalCandidates, scanned, scanEnd,
                   scanSettled, scansStarted>>

\* the fear and greed request has no try of its own: a rejection goes to the
\* outer catch
FetchFng ==
    /\ scanPc = "fng"
    /\ \E r \in FngResponses :
          IF r.ok
          THEN /\ fearIndex' = r.value
               /\ scanPc' = "lunar"
               /\ UNCHANGED <<blacklist, top500, socialData, whaleFlows, symbols,
                              scanCount, finalCandidates, scanned, scanEnd,
                              scanSettled>>
          ELSE Caught("fng")
    /\ UNCHANGED <<store, repVars, parked, scansStarted>>

FetchLunar ==
    /\ scanPc = "lunar"
    /\ \E ok \in BOOLEAN : socialData' = IF ok THEN LunarData ELSE NoSocial
    /\ scanPc' = "whale"
    /\ UNCHANGED <<store, repVars, parked, blacklist, top500, fearIndex, whaleFlows,
                   symbols, scanCount, finalCandidates, scanned, scanEnd,
                   scanSettled, scansStarted>>

FetchWhale ==
    /\ scanPc = "whale"
    /\ \E ok \in BOOLEAN : whaleFlows' = IF ok THEN WhaleTransactions ELSE {}
    /\ scanPc' = "tickers"
    /\ UNCHANGED <<store, repVars, parked, blacklist, top500, fearIndex, socialData,
                   symbols, scanCount, finalCandidates, scanned, scanEnd,
                   scanSettled, scansStarted>>

\* binance.fetchTickers() has no try of its own either
FetchTickers ==
    /\ scanPc = "tickers"
    /\ \E ok \in BOOLEAN :
          IF ok
          THEN /\ symbols' = DiscoverPairs(top500)
               /\ scanPc' = "loop"
               /\ UNCHANGED <<blacklist, top500, fearIndex, socialData, whaleFlows,
                              scanCount, finalCandidates, scanned, scanEnd,
                              scanSettled>>
          ELSE Caught("tickers")
    /\ UNCHANGED <<store, repVars, parked, scansStarted>>

\* one iteration of for (const symbol of symbols), with the data ctx
ScanAsset(ctx) ==
    /\ scanPc = "loop"
    /\ scanCount < Len(symbols)
    /\ scanCount' = scanCount + 1
    /\ scanned' = Append(scanned, ctx)
    /\ finalCandidates' =
          PushOrSkip(finalCandidates, symbols[scanCount + 1], ctx, fearIndex,
                     socialData, whaleFlows)
    /\ UNCHANGED <<store, repVars, parked, scanPc, blacklist, top500, fearIndex,
                   socialData, whaleFlows, symbols, scanEnd, scanSettled,
                   scansStarted>>

\* the loop fetches, for its next symbol, one of the contexts of pool
ScanLoop(pool) ==
    /\ scanPc = "loop"
    /\ scanCount < Len(symbols)
    /\ \E ctx \in pool : ScanAsset(ctx)

\* after the loop: the sort (in place), the slice and writeFileSync, which
\* either writes or throws into the outer catch
ScanRankWrite ==
    /\ scanPc = "loop"
    /\ scanCount = Len(symbols)
    /\ \E ok \in BOOLEAN :
          IF ok
          THEN /\ store' = WriteFile(store, Top5(finalCandidates))
               /\ finalCandidates' = SortByScore(finalCandidates)
               /\ scanPc' = "post"
               /\ scanEnd' = "written"
               /\ UNCHANGED <<blacklist, top500, fearIndex, socialData, whaleFlows,
                              symbols, scanCount, scanned, scanSettled>>
          ELSE /\ Caught("write")
               /\ UNCHANGED store
    /\ UNCHANGED <<repVars, parked, scansStarted>>

\* await sleep(2000); await postSuggestionsToTwitter(top5), which catches its
\* own errors; then the function returns
ScanPost ==
    /\ scanPc = "post"
    /\ \E tweeted \in BOOLEAN : scanPc' = "idle"
    /\ scanSettled' = "resolved"
    /\ ScanLocalsReset
    /\ UNCHANGED <<store, repVars, parked, scanEnd, scansStarted>>

\* --------------------------------------------------------- reportPerformance
\* the locals of a run that has not started or has returned
ReportLocalsReset ==
    /\ picks' = <<>>
    /\ repIdx' = 0
    /\ rows' = <<>>

\* cron.schedule('15 1 * * *', reportPerformance)
ReportStart ==
    /\ repPc = "idle"
    /\ reportsStarted < MaxReports
    /\ reportsStarted' = reportsStarted + 1
    /\ IF ~store.exists
       THEN /\ repPc' = "idle"
            /\ UNCHANGED <<picks, repIdx, rows>>
       ELSE /\ picks' = Parse(store.text)
            /\ repPc' = "loop"
            /\ UNCHANGED <<repIdx, rows>>
    /\ UNCHANGED <<store, scanVars>>

\* one iteration of for (const pick of picks)
ReportPick(ticker) ==
    /\ repPc = "loop"
    /\ repIdx < Len(picks)
    /\ rows' = Append(rows, Row(picks[repIdx + 1], ticker))
    /\ repIdx' = NextPick(repIdx, Len(picks), ticker)
    /\ UNCHANGED <<store, scanVars, repPc, picks, reportsStarted>>

\* after the loop: await twitterClient.v2.tweet(tweetText)
ReportTweet ==
    /\ repPc = "loop"
    /\ repIdx = Len(picks)
    /\ repPc' = "post"
    /\ UNCHANGED <<store, scanVars, picks, repIdx, rows, reportsStarted>>

\* picks with the baseline of every pick whose lookup answered replaced by
\* the price the lookup gave
Rebased(list, lines) ==
    [i \in 1..Len(list) |->
        IF i <= Len(lines) /\ lines[i].outcome = "change"
        THEN [list[i] EXCEPT !.priceAt5am = lines[i].now]
        ELSE list[i]]

ReportPostRebasing ==
    /\ repPc = "post"
    /\ repPc' = "idle"
    /\ store' = WriteFile(store, Rebased(picks, rows))
    /\ ReportLocalsReset
    /\ UNCHANGED <<scanVars, reportsStarted>>

\* the tweet settles (a rejection is caught and logged); the function returns
ReportPost ==
    /\ repPc = "post"
    /\ \E tweeted \in BOOLEAN : repPc' = "idle"
    /\ ReportLocalsReset
    /\ UNCHANGED <<store, scanVars, reportsStarted>>

\* the lookups a report of Spec can get
SpecLookups == {[ok |-> FALSE, last |-> 0], [ok |-> TRUE, last |-> 110]}

Next ==
    \/ ScanStart
    \/ FetchStablecoins
    \/ FetchGecko
    \/ FetchFng
    \/ FetchLunar
    \/ FetchWhale
    \/ FetchTickers
    \/ ScanLoop(Contexts)
    \/ ScanRankWrite
    \/ ScanPost
    \/ ReportStart
    \/ \E ticker \in SpecLookups : ReportPick(ticker)
    \/ ReportTweet
    \/ ReportPost

Spec == Init /\ [][Next]_vars

\* ------------------------------------- the second copy's scan, SpecSecond
\* The scan of the second copy of the program: two universe pages, pairs named
\* BASE/USDT from the start, and the venue's own /USDT pairs when the universe
\* list is empty.  Its other steps are those of the first copy; after the
\* write it logs the table and returns.
FetchGeckoSecond ==
    /\ scanPc = "gecko"
    /\ \E n \in 0..GeckoPagesSecond : top500' = GeckoPushedSecond(n, blacklist)
    /\ scanPc' = "fng"
    /\ UNCHANGED <<store, repVars, parked, blacklist, fearIndex, socialData, whaleFlows,
                   symbols, scanCount, finalCandidates, scanned, scanEnd,
                   scanSettled, scansStarted>>

FetchTickersSecond ==
    /\ scanPc = "tickers"
    /\ \E ok \in BOOLEAN :
          IF ok
          THEN /\ symbols' = DiscoverPairsSecond(top500)
               /\ scanPc' = "loop"
               /\ UNCHANGED <<blacklist, top500, fearIndex, socialData, whaleFlows,
                              scanCount, finalCandidates, scanned, scanEnd,
                              scanSettled>>
          ELSE Caught("tickers")
    /\ UNCHANGED <<store, repVars, parked, scansStarted>>

NextSecond ==
    \/ ScanStart
    \/ FetchStablecoins
    \/ FetchGeckoSecond
    \/ FetchFng
    \/ FetchLunar
    \/ FetchWhale
    \/ FetchTickersSecond
    \/ ScanLoop(Contexts)
    \/ ScanRankWrite
    \/ ScanPost

SpecSecond == Init /\ [][NextSecond]_vars

\* ----------------------------------------------- the scoring step, SpecScore
\* A run that has reached its loop with one symbol to scan, under every
\* combination of the shared signals; the loop fetches any context of
\* ScoreContexts.
HourlyLens == {19, 20, 99, 100}
DailyLens == {0, 10, 15, 30}
HoldSets ==
    {H \in SUBSET Comparisons : Cardinality(H) <= MaxHolds} \cup {Comparisons}

ScoreContexts ==
    {Context(FALSE, 0, 0, {}, 100, "throws")} \cup
    {Context(TRUE, h, d, H, p, f) :
        h \in HourlyLens, d \in DailyLens, H \in HoldSets, p \in LastPrices,
        f \in FundingOutcomes}

ReportIdle ==
    /\ repPc = "idle"
    /\ picks = <<>>
    /\ repIdx = 0
    /\ rows = <<>>
    /\ reportsStarted = 0

InitScore ==
    /\ store = Absent
    /\ scanPc = "loop"
    /\ blacklist = FallbackStablecoins
    /\ \E base \in {"BTC", "ETH"} :
          /\ top500 = <<base>>
          /\ symbols = DiscoverPairs(<<base>>)
    /\ fearIndex \in FearValues
    /\ socialData \in {NoSocial, LunarData}
    /\ whaleFlows \in {{}, WhaleTransactions}
    /\ scanCount = 0
    /\ finalCandidates = <<>>
    /\ scanned = <<>>
    /\ scanEnd = "running"
    /\ scanSettled = "pending"
    /\ scansStarted = 1
    /\ parked = IdleFrame
    /\ ReportIdle

NextScore ==
    \/ ScanLoop(ScoreContexts)
    \/ ScanRankWrite
    \/ ScanPost

SpecScore == InitScore /\ [][NextScore]_vars

\* ------------------------------------------------ the ranking step, SpecRank
\* A run whose loop has scored n assets, n up to MaxCands, each from one of
\* three contexts (scores 9, 9 and 15), about to sort, slice and write.
RankContexts ==
    {Context(TRUE, 100, 30, {"midBelowFirst", "lastAboveMid", "higherLows"},
             100, "throws"),
     Context(TRUE, 100, 30, {"psarFlip", "emaCross"}, 5, "positive"),
     Context(TRUE, 100, 30, {"bbNarrow", "belowMean"}, 100, "throws")}

RankSymbols(n) == DiscoverPairs(UpperAll(SubSeq(CoinNames, 1, n)))

\* the candidates a loop over the first n symbols pushes when it fetches the
\* contexts ctxs, with no shared signal firing
ScoredFrom(ctxs) ==
    [i \in 1..Len(ctxs) |->
        Candidate(RankSymbols(Len(ctxs))[i], ctxs[i], 50, NoSocial, {})]

InitRank ==
    /\ store = Absent
    /\ scanPc = "loop"
    /\ blacklist = FallbackStablecoins
    /\ fearIndex = 50
    /\ socialData = NoSocial
    /\ whaleFlows = {}
    /\ \E n \in 0..MaxCands :
          /\ top500 = UpperAll(SubSeq(CoinNames, 1, n))
          /\ symbols = RankSymbols(n)
          /\ scanCount = n
          /\ \E ctxs \in [1..n -> RankContexts] :
                /\ scanned = ctxs
                /\ finalCandidates = ScoredFrom(ctxs)
    /\ scanEnd = "running"
    /\ scanSettled = "pending"
    /\ scansStarted = 1
    /\ parked = IdleFrame
    /\ ReportIdle

NextRank ==
    \/ ScanRankWrite
    \/ ScanPost

SpecRank == InitRank /\ [][NextRank]_vars

\* ---------------------------------------------------- the report, SpecReport
\* The file holds the Selection of a finished scan of up to MaxPicks assets;
\* reports run against it, each lookup settling with any of TickerLookups.
InitReport ==
    /\ \E n \in 1..MaxPicks :
          \E ctxs \in [1..n -> RankContexts] :
             store = WriteFile(Absent, Top5(ScoredFrom(ctxs)))
    /\ scanPc = "idle"
    /\ blacklist = {}
    /\ top500 = <<>>
    /\ fearIndex = 0
    /\ socialData = NoSocial
    /\ whaleFlows = {}
    /\ symbols = <<>>
    /\ scanCount = 0
    /\ finalCandidates = <<>>
    /\ scanned = <<>>
    /\ scanEnd = "written"
    /\ scanSettled = "resolved"
    /\ scansStarted = 1
    /\ parked = IdleFrame
    /\ ReportIdle

NextReport ==
    \/ ReportStart
    \/ \E ticker \in TickerLookups : ReportPick(ticker)
    \/ ReportTweet
    \/ ReportPost

SpecReport == InitReport /\ [][NextReport]_vars

\* ------------------------------------------- overlapping runs, SpecOverlap
\* getUnifiedPicks is called at load and again by the scheduler; a call that
\* waits at an await leaves the thread to the other call and to
\* reportPerformance.  The variables of the scan hold the locals of the call
\* whose continuation runs next, parked those of the other call.
CurrentFrame ==
    Frame(scanPc, blacklist, top500, fearIndex, socialData, whaleFlows, symbols,
          scanCount, finalCandidates, scanned, scanEnd, scanSettled)

\* let finalCandidates = [] is a local of each call: the call that resumes
\* finds its own list, not the one the other call has been pushing to
CandidatesShared(own, other) == other

CandidatesOfRun(own, other) == own

\* the event loop resumes the other call at the await where it waits
SwitchRun ==
    /\ parked.scanPc # "idle"
    /\ parked' = CurrentFrame
    /\ scanPc' = parked.scanPc
    /\ blacklist' = parked.blacklist
    /\ top500' = parked.top500
    /\ fearIndex' = parked.fearIndex
    /\ socialData' = parked.socialData
    /\ whaleFlows' = parked.whaleFlows
    /\ symbols' = parked.symbols
    /\ scanCount' = parked.scanCount
    /\ finalCandidates' = CandidatesOfRun(parked.finalCandidates, finalCandidates)
    /\ scanned' = parked.scanned
    /\ scanEnd' = parked.scanEnd
    /\ scanSettled' = parked.scanSettled
    /\ UNCHANGED <<store, repVars, scansStarted>>

\* the contexts a run of SpecOverlap can fetch: scores 4 and 11 before the
\* fear signal, last prices 100 and 5
OverlapContexts ==
    {Context(TRUE, 100, 30, {"higherLows"}, 100, "throws"),
     Context(TRUE, 100, 30, {"psarFlip", "emaCross"}, 5, "positive")}

\* a call that has passed its global fetches with the fear index fear and is
\* about to enter its loop
AtLoopEntry(fear) ==
    Frame("loop", FallbackStablecoins, UpperAll(SubSeq(CoinNames, 1, MaxRunAssets)),
          fear, NoSocial, {}, RankSymbols(MaxRunAssets), 0, <<>>, <<>>,
          "running", "pending")

\* the call made at load and the scheduled call are both in flight, one
\* having read a fear index of 18 and the other of 50
InitOverlap ==
    /\ store = Absent
    /\ scanPc = AtLoopEntry(18).scanPc
    /\ blacklist = AtLoopEntry(18).blacklist
    /\ top500 = AtLoopEntry(18).top500
    /\ fearIndex = AtLoopEntry(18).fearIndex
    /\ socialData = AtLoopEntry(18).socialData
    /\ whaleFlows = AtLoopEntry(18).whaleFlows
    /\ symbols = AtLoopEntry(18).symbols
    /\ scanCount = AtLoopEntry(18).scanCount
    /\ finalCandidates = AtLoopEntry(18).finalCandidates
    /\ scanned = AtLoopEntry(18).scanned
    /\ scanEnd = AtLoopEntry(18).scanEnd
    /\ scanSettled = AtLoopEntry(18).scanSettled
    /\ parked = AtLoopEntry(50)
    /\ scansStarted = 2
    /\ ReportIdle

NextOverlap ==
    \/ ScanLoop(OverlapContexts)
    \/ ScanRankWrite
    \/ ScanPost
    \/ SwitchRun
    \/ ReportStart
    \/ \E ticker \in SpecLookups : ReportPick(ticker)
    \/ ReportTweet
    \/ ReportPost

SpecOverlap == InitOverlap /\ [][NextOverlap]_vars

\* ================================================================ the claims
PositionIn(seq, x) == CHOOSE i \in 1..Len(seq) : seq[i] = x

Selection == Parse(store.text)

\* the documented weight of a trigger label
SocialLabels == {SocialLabel(g) : g \in 0..100}

DocWeight(label) ==
    CASE label = "Rounding Bottom" -> 5
      [] label = "Higher Lows (Triangle)" -> 4
      [] label = "PSAR Flip" -> 6
      [] label = "EMA Cross" -> 3
      [] label = "Volatility Squeeze" -> 7
      [] label = "Gapper Continuation" -> 4
      [] label = "Mean Reversion (Oversold)" -> 8
      [] label = "VWAP Bounce" -> 4
      [] label = "Unit Bias" -> 2
      [] label \in SocialLabels -> 10
      [] label = "Whale Activity Detected" -> 6
      [] label = "Short Squeeze potential" -> 8
      [] label = "Market Extreme Fear" -> 5
      [] OTHER -> -1000

RECURSIVE SumOfWeights(_)
SumOfWeights(labels) ==
    IF labels = <<>> THEN 0
    ELSE DocWeight(Head(labels)) + SumOfWeights(Tail(labels))

ScoreMatchesTriggers(c) ==
    /\ c.score = SumOfWeights(c.triggers)
    /\ \A i, j \in 1..Len(c.triggers) : i # j => c.triggers[i] # c.triggers[j]

\* C1: every candidate the loop has pushed, and every entry of the persisted
\* Selection, has a score equal to the sum of the documented weights of the
\* labels in its triggers, and no label appears twice.
C1_ScoreIsSumOfTriggerWeights ==
    /\ \A i \in 1..Len(finalCandidates) : ScoreMatchesTriggers(finalCandidates[i])
    /\ \A i \in 1..Len(Selection) : ScoreMatchesTriggers(Selection[i])

\* a persisted entry with at least eleven triggers, the social one and the
\* fear one among them
C1_Witness ==
    /\ store.exists
    /\ \E i \in 1..Len(Selection) :
          /\ Len(Selection[i].triggers) >= 11
          /\ "Market Extreme Fear" \in Range(Selection[i].triggers)
          /\ SocialLabel(80) \in Range(Selection[i].triggers)

\* C2: after the ranking step the candidates are in descending order of
\* score, candidates of equal score are in the order in which the loop scanned
\* their symbols, the sorted list holds exactly the candidates that were
\* scored, and the persisted Selection is a prefix of it.
C2_RankDescendingStable ==
    scanPc = "post" =>
        /\ Len(finalCandidates) = Len(scanned)
        /\ Range(finalCandidates) = Range(ScoredFrom(scanned))
        /\ \A i, j \in 1..Len(finalCandidates) :
              i < j =>
                 /\ finalCandidates[i].score >= finalCandidates[j].score
                 /\ finalCandidates[i].score = finalCandidates[j].score =>
                       PositionIn(symbols, finalCandidates[i].symbol)
                          < PositionIn(symbols, finalCandidates[j].symbol)
        /\ \A i \in 1..Len(Selection) : Selection[i] = finalCandidates[i]

\* a ranked list whose first entry was scanned last and which holds three
\* candidates of equal score
C2_Witness ==
    /\ scanPc = "post"
    /\ Len(finalCandidates) >= 4
    /\ finalCandidates[1].symbol = symbols[Len(symbols)]
    /\ finalCandidates[2].score = finalCandidates[4].score

\* C3: the persisted Selection has min(5, number of scored candidates)
\* entries: never more than five, and every scored candidate when fewer than
\* five were scored.
C3_SelectionIsTopK ==
    scanPc = "post" =>
        /\ store.exists
        /\ Len(Selection) <= 5
        /\ Len(Selection) =
              (IF Len(finalCandidates) < 5 THEN Len(finalCandidates) ELSE 5)
        /\ Len(finalCandidates) < 5 =>
              Range(Selection) = Range(ScoredFrom(scanned))

\* six candidates were scored and five persisted
C3_Witness ==
    /\ scanPc = "post"
    /\ Len(finalCandidates) = 6
    /\ Len(Selection) = 5

\* C4: no error of a provider consulted by the scan aborts it: a run never
\* ends in the outer catch because the fear and greed request or the tickers
\* request rejected.
C4_NoProviderErrorAbortsScan == scanEnd \notin {"fng", "tickers"}

\* ---- C5, C6: what one iteration of the loop does with a context
\* the position in scanned of the asset a candidate was scored from
Pushed(i) == \E k \in 1..Len(finalCandidates) : finalCandidates[k].symbol = symbols[i]

CandidateOf(i) ==
    finalCandidates[CHOOSE k \in 1..Len(finalCandidates) :
                        finalCandidates[k].symbol = symbols[i]]

\* the evaluators in the order of the code, each with the bars or the lookup
\* it needs and the comparison it makes
EvaluatorOrder ==
    <<"Rounding Bottom", "Higher Lows (Triangle)", "PSAR Flip", "EMA Cross",
      "Volatility Squeeze", "Gapper Continuation", "Mean Reversion (Oversold)",
      "VWAP Bounce", "Unit Bias", "Social", "Whale Activity Detected",
      "Short Squeeze potential", "Market Extreme Fear">>

CanCompute(e, ctx, coin) ==
    CASE e = "Rounding Bottom" -> ctx.dLen >= 30
      [] e \in {"Higher Lows (Triangle)", "PSAR Flip", "Mean Reversion (Oversold)",
                "VWAP Bounce"} -> ctx.hLen >= 100
      [] e \in {"EMA Cross", "Volatility Squeeze"} -> ctx.hLen >= 20
      [] e = "Gapper Continuation" -> ctx.hLen >= 100 /\ ctx.dLen >= 1
      [] e = "Social" -> coin \in DOMAIN socialData
      [] e = "Short Squeeze potential" -> ctx.funding # "throws"
      [] OTHER -> TRUE

ConditionHolds(e, ctx, coin) ==
    CASE e = "Rounding Bottom" -> {"midBelowFirst", "lastAboveMid"} \subseteq ctx.holds
      [] e = "Higher Lows (Triangle)" -> "higherLows" \in ctx.holds
      [] e = "PSAR Flip" -> "psarFlip" \in ctx.holds
      [] e = "EMA Cross" -> "emaCross" \in ctx.holds
      [] e = "Volatility Squeeze" -> "bbNarrow" \in ctx.holds
      [] e = "Gapper Continuation" -> "gap" \in ctx.holds
      [] e = "Mean Reversion (Oversold)" -> "belowMean" \in ctx.holds
      [] e = "VWAP Bounce" -> "vwapBounce" \in ctx.holds
      [] e = "Unit Bias" -> ctx.last < 10
      [] e = "Social" -> socialData[coin] > 70
      [] e = "Whale Activity Detected" ->
            \E t \in whaleFlows : Upper(t.symbol) = coin /\ t.owner_type = "exchange"
      [] e = "Short Squeeze potential" -> ctx.funding = "negative"
      [] OTHER -> fearIndex < 25

LabelOf(e, coin) == IF e = "Social" THEN SocialLabel(socialData[coin]) ELSE e

RECURSIVE ExpectedTriggers(_, _, _)
ExpectedTriggers(es, ctx, coin) ==
    IF es = <<>> THEN <<>>
    ELSE (IF CanCompute(Head(es), ctx, coin) /\ ConditionHolds(Head(es), ctx, coin)
          THEN <<LabelOf(Head(es), coin)>> ELSE <<>>)
         \o ExpectedTriggers(Tail(es), ctx, coin)

\* the histories on which a read of a missing bar or of the empty Bollinger
\* series throws inside the per-asset try
HistoryThrows(ctx) ==
    \/ ctx.hLen < 20
    \/ ctx.dLen = 0
    \/ ctx.dLen \in 11..29 /\ "midBelowFirst" \in ctx.holds

\* C5 as stated: every asset whose candles were fetched is pushed, with the
\* triggers of exactly the evaluators that can compute and whose condition
\* holds.
C5_EveryFetchedAssetIsScored ==
    scanPc \in {"loop", "post"} =>
        \A i \in 1..Len(scanned) :
            scanned[i].ohlcv =>
                /\ Pushed(i)
                /\ CandidateOf(i).triggers =
                      ExpectedTriggers(EvaluatorOrder, scanned[i], CoinOf(symbols[i]))

\* C5 as amended: an asset whose candles were fetched is pushed unless its
\* history makes a read throw (fewer than 20 hourly bars, no daily bar, or 11
\* to 29 daily bars with the 10..19 minimum below the first close); when it
\* is pushed, an evaluator that cannot compute (an hourly index past the end,
\* a rejected funding lookup, a symbol absent from the social data) has not
\* fired and the triggers and score are those of the remaining evaluators.
C5_UnavailableEvaluatorNotFired ==
    scanPc \in {"loop", "post"} =>
        \A i \in 1..Len(scanned) :
            /\ Pushed(i) <=> (scanned[i].ohlcv /\ ~HistoryThrows(scanned[i]))
            /\ Pushed(i) =>
                  /\ CandidateOf(i).triggers =
                        ExpectedTriggers(EvaluatorOrder, scanned[i], CoinOf(symbols[i]))
                  /\ CandidateOf(i).score = SumOfWeights(CandidateOf(i).triggers)

\* an asset with 99 hourly bars and a rejected funding lookup was pushed with
\* the triggers of three other evaluators
C5_Witness ==
    /\ scanPc = "loop"
    /\ Len(scanned) = 1
    /\ scanned[1].hLen = 99
    /\ scanned[1].funding = "throws"
    /\ "higherLows" \in scanned[1].holds
    /\ Pushed(1)
    /\ Len(CandidateOf(1).triggers) >= 3

\* C6: an asset whose hourly history has exactly 99 bars is never among the
\* candidates nor in the persisted Selection.
C6_NinetyNineBarsExcluded ==
    scanPc \in {"loop", "post"} =>
        \A i \in 1..Len(scanned) :
            scanned[i].hLen = 99 =>
                /\ ~Pushed(i)
                /\ \A k \in 1..Len(Selection) : Selection[k].symbol # symbols[i]

\* C7: when a scan run ends, a store that exists holds exactly the top five
\* of the candidates of that run.
C7_StoreIsEndedScansTopK ==
    [][(scanPc # "idle" /\ scanPc' = "idle" /\ store'.exists)
          => Parse(store'.text) = Top5(finalCandidates)]_vars

\* C8: while a report runs there is one row per pick handled, for the symbol
\* of that pick, and when the loop is over there is one row per pick of the
\* Selection that was read, whatever lookups failed.
C8_OneRowPerPick ==
    /\ repPc \in {"loop", "post"} =>
          /\ Len(rows) = repIdx
          /\ repIdx <= Len(picks)
          /\ \A i \in 1..Len(rows) : rows[i].symbol = picks[i].symbol
    /\ repPc = "post" => Len(rows) = Len(picks)

\* a finished loop over three picks whose second lookup failed
C8_Witness ==
    /\ repPc = "post"
    /\ Len(rows) = 3
    /\ rows[1].outcome = "change"
    /\ rows[2].outcome = "error"
    /\ rows[3].outcome = "change"

\* C9: a change row carries the baseline of its pick, its percent change to
\* two decimals is (now - baseline) / baseline * 100, and the target is met
\* exactly when that change is at least 10: 100 to 112 is 12.00 and met, 100
\* to 110 is 10.00 and met.
C9_PercentChangeAndTarget ==
    \A i \in 1..Len(rows) :
        LET r == rows[i] IN
        r.outcome = "change" =>
            /\ r.baseline = picks[i].priceAt5am
            /\ 2 * r.baseline * r.fixed2 - r.baseline <= 2 * 10000 * (r.now - r.baseline)
            /\ 2 * 10000 * (r.now - r.baseline) <= 2 * r.baseline * r.fixed2 + r.baseline
            /\ r.targetMet <=> (r.now - r.baseline) * 100 >= 10 * r.baseline
            /\ (r.baseline = 100 /\ r.now = 112) => (r.fixed2 = 1200 /\ r.targetMet)
            /\ (r.baseline = 100 /\ r.now = 110) => (r.fixed2 = 1000 /\ r.targetMet)

\* one report with a pick gone from 100 to 110 and another from 100 to 112
C9_Witness ==
    /\ \E i \in 1..Len(rows) :
          rows[i].outcome = "change" /\ rows[i].baseline = 100 /\ rows[i].now = 110
    /\ \E i \in 1..Len(rows) :
          rows[i].outcome = "change" /\ rows[i].baseline = 100 /\ rows[i].now = 112

\* C10: a run whose write of the Selection failed does not complete normally:
\* the promise getUnifiedPicks returned is rejected.
C10_WriteFailureRejects == scanEnd = "write" => scanSettled = "rejected"

\* ---- C11: stablecoins
\* the base symbols of the run's exclusion set, as coinSymbol spells them
Excluded == {Upper(s) : s \in blacklist}

\* C11: while a run is in its loop or past its write, no candidate it has
\* pushed has a base symbol in the run's stablecoin exclusion set (the
\* fallback set plus what the stablecoin provider returned), and once it has
\* written, no entry of the Selection has.
C11_NoStablecoinScored ==
    scanPc \in {"loop", "post"} =>
        /\ \A i \in 1..Len(finalCandidates) :
              CoinOf(finalCandidates[i].symbol) \notin Excluded
        /\ scanPc = "post" =>
              \A i \in 1..Len(Selection) : CoinOf(Selection[i].symbol) \notin Excluded

\* ---- C12: the baseline price
\* C12: when a run writes the Selection, the priceAt5am of every entry is the
\* last price that run observed for the entry's symbol; no step of
\* reportPerformance, in any of its runs, changes the store; the picks of a
\* report in progress keep the baselines it read; and every change row is
\* computed from the baseline of its pick.
C12_BaselineFrozen ==
    /\ [](\A i \in 1..Len(rows) : rows[i].baseline = picks[i].priceAt5am)
    /\ [][/\ store' # store =>
               \A i \in 1..Len(Parse(store'.text)) :
                   LET e == Parse(store'.text)[i]
                   IN  e.priceAt5am = scanned[PositionIn(symbols, e.symbol)].last
          /\ repVars' # repVars => store' = store
          /\ (repPc = "loop" /\ repPc' # "idle") => picks' = picks]_vars

\* the second report has finished its loop against a Selection that holds one
\* baseline of 5 and one of 100, still the Selection it read, while the other
\* run is in its loop
C12_Witness ==
    /\ reportsStarted = 2
    /\ repPc = "post"
    /\ Len(rows) = 2
    /\ \A i \in 1..Len(rows) : rows[i].outcome = "change"
    /\ store.exists
    /\ Selection = picks
    /\ {Selection[i].priceAt5am : i \in 1..Len(Selection)} = {5, 100}
    /\ parked.scanPc = "loop"

\* ---- C13: overlapping runs
\* the candidates the run in progress has pushed for its first n symbols,
\* from the contexts it fetched and the signals it read
RECURSIVE PushedUpTo(_)
PushedUpTo(n) ==
    IF n = 0 THEN <<>>
    ELSE PushOrSkip(PushedUpTo(n - 1), symbols[n], scanned[n], fearIndex,
                    socialData, whaleFlows)

HasFearTrigger(entry) == "Market Extreme Fear" \in Range(entry.triggers)

\* the entries of the Selection come from one run: the two runs read
\* different fear indexes, so the entries agree on the fear trigger
StoreUnmixed ==
    store.exists =>
        /\ Len(Selection) <= 5
        /\ \A i, j \in 1..Len(Selection) :
              /\ HasFearTrigger(Selection[i]) <=> HasFearTrigger(Selection[j])
              /\ i # j => Selection[i].symbol # Selection[j].symbol

====
